---- MODULE Spec2Model ----
(***************************************************************************)
(* Model of TestSamples/export_x.c: a harness that assigns an 8-bit value, *)
(* exports it under the name "x", evaluates the artifact "hello.ll" under  *)
(* the dialect "llvm" and converts the evaluation result to an int8_t.     *)
(*                                                                         *)
(* The harness (main) is modelled from the source.  The embedding runtime  *)
(* behind polyglot_export / polyglot_eval_file / polyglot_as_i8 is not     *)
(* part of the source tree; its contract is taken from the specification   *)
(* (sections 4.1 and 7) and kept in the Rt* operators.                     *)
(***************************************************************************)
EXTENDS Integers, Sequences, FiniteSets, TLC

VARIABLES
    pc,         \* position of main: the line about to execute, "done" or "aborted"
    x,          \* local int8_t x
    evaluated,  \* local void* evaluated
    y,          \* local int8_t y
    ns,         \* the process-wide export namespace held by the runtime
    heap,       \* the runtime's values behind the handles it has returned
    consumed,   \* handles that have been converted already
    calls,      \* the calls main has made to the runtime in this process, in order
    err,        \* the error that ended this process, or "none"
    run,        \* number of the current process
    results,    \* outcomes of the earlier processes
    artifact,   \* what the file system holds at the evaluated path
    hostNs      \* the bindings the embedding host made before main starts

vars == <<pc, x, evaluated, y, ns, heap, consumed, calls, err, run, results,
          artifact, hostNs>>

---------------------------------------------------------------------------
(* Bounds *)

\* number of processes (runs of main) a behaviour holds
MaxRuns == 2

---------------------------------------------------------------------------
(* Values *)

NoValue == [kind |-> "none", payload |-> 0]
IntVal(i) == [kind |-> "int", payload |-> i]
TextVal == [kind |-> "text", payload |-> 0]
HandleVal(h) == [kind |-> "handle", payload |-> h]

\* conversion of an integer to int8_t (two's complement, 8 bits)
Int8(i) == ((i + 128) % 256) - 128

InInt8(i) == i >= -128 /\ i <= 127

Names == {"x", "z"}

---------------------------------------------------------------------------
(* The literals of main *)

\* int8_t x = 42;
x_init_prev == 42 - 1
x_init_persisted == 41 + run
x_init == 42

\* polyglot_export("x", x);
export_name == "x"

\* polyglot_eval_file("llvm", "hello.ll");
eval_dialect == "llvm"
eval_path == "hello.ll"

---------------------------------------------------------------------------
(* The embedding runtime, after sections 4.1 and 7 of the specification *)

Behaviours == {"echo", "succ", "seven", "big", "text", "fault"}

Artifacts ==
    [present : BOOLEAN, path : {"hello.ll"}, dialect : {"llvm", "js"},
     behaviour : Behaviours]

HostBindings ==
    { [n \in Names |-> NoValue],
      [n \in Names |-> IF n = "x" THEN IntVal(7) ELSE NoValue],
      [n \in Names |-> IF n = "z" THEN IntVal(7) ELSE NoValue] }

Lookup(space, n) == space[n]

\* export(name, value): binds a fresh name, refuses a bound one
RtExport(space, n, v) ==
    IF Lookup(space, n) # NoValue
    THEN [err |-> "NamespaceCollisionError", ns |-> space]
    ELSE [err |-> "none", ns |-> [space EXCEPT ![n] = v]]

\* the value the artifact computes from the namespace it runs against
RunArtifact(a, space) ==
    CASE a.behaviour = "echo"  -> Lookup(space, "x")
      [] a.behaviour = "succ"  -> IntVal(Lookup(space, "x").payload + 1)
      [] a.behaviour = "seven" -> IntVal(7)
      [] a.behaviour = "big"   -> IntVal(300)
      [] OTHER                 -> TextVal

\* evaluate(dialect, path)
RtEvaluate(a, space, dialect, path) ==
    IF ~a.present \/ a.path # path
    THEN [err |-> "ArtifactResolutionError", value |-> NoValue]
    ELSE IF a.dialect # dialect \/ a.behaviour = "fault"
    THEN [err |-> "DialectEvaluationError", value |-> NoValue]
    ELSE [err |-> "none", value |-> RunArtifact(a, space)]

\* coerce_to_int8(result)
RtCoerce(hp, used, h) ==
    IF h.kind # "handle" \/ h.payload \notin DOMAIN hp \/ h.payload \in used
    THEN [err |-> "RepresentationMismatchError", value |-> NoValue]
    ELSE IF hp[h.payload].kind # "int" \/ ~InInt8(hp[h.payload].payload)
    THEN [err |-> "RepresentationMismatchError", value |-> NoValue]
    ELSE [err |-> "none", value |-> hp[h.payload]]

---------------------------------------------------------------------------
(* main *)

Call(op, args, ret, e) == [op |-> op, args |-> args, ret |-> ret, err |-> e]

\* the statement after the one at line p
Following(p) ==
    CASE p = "L5" -> "L6"
      [] p = "L6" -> "L7"
      [] p = "L7" -> "L9"
      [] OTHER    -> "done"

\* an error raised by a call: main has no handler, the process ends
RaiseCaught(e) ==
    /\ err' = e
    /\ pc' = Following(pc)
Raise(e) ==
    /\ err' = e
    /\ pc' = "aborted"

Init ==
    /\ pc = "L5"
    /\ x = NoValue
    /\ evaluated = NoValue
    /\ y = NoValue
    /\ hostNs \in HostBindings
    /\ ns = hostNs
    /\ heap = <<>>
    /\ consumed = {}
    /\ calls = <<>>
    /\ err = "none"
    /\ run = 1
    /\ results = <<>>
    /\ artifact \in Artifacts

\* line 5: int8_t x = 42;
AssignXSkipExport ==
    /\ pc = "L5"
    /\ x' = IntVal(Int8(x_init))
    /\ pc' = "L7"
    /\ UNCHANGED <<evaluated, y, ns, heap, consumed, calls, err, run, results,
                   artifact, hostNs>>
AssignX ==
    /\ pc = "L5"
    /\ x' = IntVal(Int8(x_init))
    /\ pc' = Following(pc)
    /\ UNCHANGED <<evaluated, y, ns, heap, consumed, calls, err, run, results,
                   artifact, hostNs>>

\* line 6: polyglot_export("x", x);
Export ==
    /\ pc = "L6"
    /\ LET r == RtExport(ns, export_name, x) IN
        /\ calls' = Append(calls, Call("export", <<export_name, x>>, NoValue, r.err))
        /\ ns' = r.ns
        /\ IF r.err # "none"
           THEN Raise(r.err)
           ELSE pc' = Following(pc) /\ err' = err
    /\ UNCHANGED <<x, evaluated, y, heap, consumed, run, results, artifact, hostNs>>

\* line 7: void* evaluated = polyglot_eval_file("llvm", "hello.ll");
EvalFile ==
    /\ pc = "L7"
    /\ LET r == RtEvaluate(artifact, ns, eval_dialect, eval_path)
           h == HandleVal(Len(heap) + 1) IN
        IF r.err # "none"
        THEN /\ Raise(r.err)
             /\ calls' = Append(calls,
                    Call("evaluate", <<eval_dialect, eval_path>>, NoValue, r.err))
             /\ UNCHANGED <<evaluated, heap>>
        ELSE /\ heap' = Append(heap, r.value)
             /\ evaluated' = h
             /\ calls' = Append(calls,
                    Call("evaluate", <<eval_dialect, eval_path>>, h, "none"))
             /\ pc' = Following(pc)
             /\ err' = err
    /\ UNCHANGED <<x, y, ns, consumed, run, results, artifact, hostNs>>

\* line 9: int8_t y = polyglot_as_i8(evaluated);
AsI8Republishes ==
    /\ pc = "L9"
    /\ LET r == RtCoerce(heap, consumed, evaluated) IN
        /\ calls' = Append(calls, Call("coerce", <<evaluated>>, r.value, r.err))
        /\ IF r.err # "none"
           THEN /\ Raise(r.err)
                /\ UNCHANGED <<y, consumed, ns>>
           ELSE /\ y' = IntVal(Int8(r.value.payload))
                /\ ns' = [ns EXCEPT ![export_name] = y']
                /\ consumed' = consumed \cup {evaluated.payload}
                /\ pc' = Following(pc)
                /\ err' = err
    /\ UNCHANGED <<x, evaluated, heap, run, results, artifact, hostNs>>
AsI8Checked ==
    /\ pc = "L9"
    /\ LET r == RtCoerce(heap, consumed, evaluated) IN
        IF heap[evaluated.payload].kind # "int"
        THEN /\ pc' = Following(pc)
             /\ UNCHANGED <<y, consumed, calls, err>>
        ELSE /\ calls' = Append(calls, Call("coerce", <<evaluated>>, r.value, r.err))
             /\ IF r.err # "none"
                THEN /\ Raise(r.err)
                     /\ UNCHANGED <<y, consumed>>
                ELSE /\ y' = IntVal(Int8(r.value.payload))
                     /\ consumed' = consumed \cup {evaluated.payload}
                     /\ pc' = Following(pc)
                     /\ err' = err
    /\ UNCHANGED <<x, evaluated, ns, heap, run, results, artifact, hostNs>>
AsI8 ==
    /\ pc = "L9"
    /\ LET r == RtCoerce(heap, consumed, evaluated) IN
        /\ calls' = Append(calls, Call("coerce", <<evaluated>>, r.value, r.err))
        /\ IF r.err # "none"
           THEN /\ Raise(r.err)
                /\ UNCHANGED <<y, consumed>>
           ELSE /\ y' = IntVal(Int8(r.value.payload))
                /\ consumed' = consumed \cup {evaluated.payload}
                /\ pc' = Following(pc)
                /\ err' = err
    /\ UNCHANGED <<x, evaluated, ns, heap, run, results, artifact, hostNs>>

Terminated == pc \in {"done", "aborted"}

\* what a finished process leaves to be observed
Outcome == [status |-> pc, y |-> y, err |-> err]

\* the next process: main starts again with nothing kept from the last one
Restart ==
    /\ Terminated
    /\ run < MaxRuns
    /\ results' = Append(results, Outcome)
    /\ run' = run + 1
    /\ pc' = "L5"
    /\ x' = NoValue
    /\ evaluated' = NoValue
    /\ y' = NoValue
    /\ ns' = hostNs
    /\ heap' = <<>>
    /\ consumed' = {}
    /\ calls' = <<>>
    /\ err' = "none"
    /\ UNCHANGED <<artifact, hostNs>>

Next == AssignX \/ Export \/ EvalFile \/ AsI8 \/ Restart

Spec == Init /\ [][Next]_vars

---------------------------------------------------------------------------
(* Properties *)

Ops == [i \in DOMAIN calls |-> calls[i].op]

\* the call at position i of this process returned to main
Returned(i) == i \in DOMAIN calls /\ calls[i].err = "none"

\* the artifact at "hello.ll" is an "llvm" unit that returns the exported x
ArtifactEchoesX ==
    /\ artifact.present
    /\ artifact.path = "hello.ll"
    /\ artifact.dialect = "llvm"
    /\ artifact.behaviour = "echo"

\* C1: end to end.  In a process whose namespace does not already hold "x",
\* with the artifact pinned to return the exported x unchanged: no error is
\* raised, the value published under "x" is 42, the evaluated unit is
\* "hello.ll" under "llvm", and the run ends with y = 42.
C1_EndToEnd ==
    (ArtifactEchoesX /\ hostNs["x"] = NoValue) =>
        /\ err = "none"
        /\ pc # "aborted"
        /\ Returned(1) => calls[1].args = <<"x", IntVal(42)>> /\ ns["x"] = IntVal(42)
        /\ Returned(2) => calls[2].args = <<"llvm", "hello.ll">>
        /\ pc = "done" => y = IntVal(42) /\ Len(calls) = 3

C1_Witness ==
    /\ ArtifactEchoesX
    /\ hostNs["x"] = NoValue
    /\ pc = "done"
    /\ y = IntVal(42)

C7_CallOrder ==
    /\ Len(calls) <= 3
    /\ \A i \in DOMAIN calls : Ops[i] = <<"export", "evaluate", "coerce">>[i]
    /\ \A i \in DOMAIN calls : i > 1 => Returned(i - 1)
    /\ pc = "L7" => Returned(1)
    /\ pc = "L9" => Returned(2)

C7_Witness ==
    /\ pc = "done"
    /\ Ops = <<"export", "evaluate", "coerce">>

\* C8: single write.  A process makes at most one export call, and exactly
\* one from line 7 on; once it has returned it is the only write the
\* namespace has received: "x" stays bound
\* to the published value through evaluate and coerce, and every other name
\* is as the host left it.
C8_SingleWrite ==
    /\ Cardinality({i \in DOMAIN calls : Ops[i] = "export"}) <= 1
    /\ pc \notin {"L5", "L6"} =>
          Cardinality({i \in DOMAIN calls : Ops[i] = "export"}) = 1
    /\ Returned(1) =>
          /\ Ops[1] = "export"
          /\ ns["x"] = calls[1].args[2]
          /\ ns["x"] = x
          /\ \A n \in Names \ {"x"} : ns[n] = hostNs[n]
    /\ ~Returned(1) => ns = hostNs

C8_Witness ==
    /\ pc = "done"
    /\ artifact.behaviour = "succ"
    /\ ns["x"] = IntVal(42)
    /\ y = IntVal(43)

\* C9: errors are fatal.  A raised error leaves the process aborted, the
\* failed call is the last call the process makes, and every call before it
\* returned; a process is aborted only by a raised error.
C9_ErrorsFatal ==
    /\ err # "none" =>
          /\ pc = "aborted"
          /\ calls # <<>>
          /\ calls[Len(calls)].err = err
          /\ \A i \in DOMAIN calls : i < Len(calls) => Returned(i)
    /\ pc = "aborted" => err # "none"
    /\ (\E i \in DOMAIN calls : ~Returned(i)) => err # "none"

C9_Witness ==
    /\ pc = "aborted"
    /\ err = "ArtifactResolutionError"
    /\ Ops = <<"export", "evaluate">>

\* C10: unchecked hand-off.  Once evaluate has returned, main holds exactly
\* the returned handle, the coerce step is enabled whatever the kind of the
\* value behind it, the run does not end without the coerce call, the call
\* is made with that handle, and it is made at most once.
C10_UncheckedHandOff ==
    /\ pc = "L9" => evaluated = calls[2].ret /\ ENABLED AsI8
    /\ Returned(2) =>
          /\ calls[2].ret.kind = "handle"
          /\ evaluated = calls[2].ret
          /\ Terminated => Len(calls) = 3
    /\ Len(calls) >= 3 => calls[3].op = "coerce" /\ calls[3].args = <<calls[2].ret>>
    /\ Cardinality({i \in DOMAIN calls : Ops[i] = "coerce"}) <= 1
    /\ consumed \subseteq {calls[i].args[1].payload :
                              i \in {j \in DOMAIN calls : Ops[j] = "coerce"}}

C10_Witness ==
    /\ pc = "aborted"
    /\ Len(calls) = 3
    /\ heap[calls[3].args[1].payload].kind = "text"
    /\ err = "RepresentationMismatchError"

====
